---- MODULE Spec2Model ----
(***************************************************************************)
(* Model of the DOT day-specific pricing API (src/server.js) together with *)
(* the provisioned data of src/database/schema.sql.                        *)
(*                                                                         *)
(* Prices are whole dollars.  Multipliers are kept as integers: the        *)
(* occupancy, time, traffic and momentum multipliers in hundredths, the    *)
(* market fluctuation in thousandths.  Products are exact rationals; the   *)
(* IEEE rounding of the JavaScript doubles is not modelled.                *)
(* The clock `now` counts minutes since Sunday 00:00 of the current week.  *)
(***************************************************************************)
EXTENDS Integers, Sequences, FiniteSets, TLC

VARIABLES
    now,             \* wall clock: new Date() / Date.now() / SQL NOW()
    ticks,           \* number of clock advances so far
    room_inventory,  \* table room_inventory: id -> row
    room_bookings,   \* table room_bookings: sequence of rows, id = index
    book,            \* in-flight POST /api/rooms/:id/book handlers
    requests,        \* number of booking requests accepted so far
    sweep,           \* the cron.schedule pricing callback
    sweeps,          \* number of cron ticks so far
    fix,             \* the GET /api/fix-inventory handler
    force,           \* the GET /api/force-update handler
    override,        \* last POST /api/admin/override-price exchange
    overrides,       \* number of override requests so far
    listing,         \* last GET /api/bookings/:email exchange
    roomsReply,      \* last GET /api/rooms exchange
    engine,          \* a MotelPricingEngine and the results it has returned
    args,            \* inputs of a calculateDynamicPrice call
    calc             \* its result

vars == <<now, ticks, room_inventory, room_bookings, book, requests, sweep,
          sweeps, fix, force, override, overrides, listing, roomsReply,
          engine, args, calc>>

---------------------------------------------------------------------------
(* Calendar *)

MinutesPerHour == 60
HoursPerDay == 24
MinutesPerDay == MinutesPerHour * HoursPerDay

DayNames == <<"Sunday", "Monday", "Tuesday", "Wednesday", "Thursday",
              "Friday", "Saturday">>

\* new Date().getDay()
getDay(t) == (t \div MinutesPerDay) % 7

\* new Date().getHours()
getHours(t) == (t \div MinutesPerHour) % HoursPerDay

\* ['Sunday',...,'Saturday'][now.getDay()]
currentDayOf(t) == DayNames[getDay(t) + 1]

dayMap == [d \in {DayNames[i] : i \in 1..7} |->
             CHOOSE i \in 0..6 : DayNames[i + 1] = d]

---------------------------------------------------------------------------
(* calculateDynamicPrice *)

\* resolution of the Math.random() draw: Math.random() = rnd / RandRes,
\* rnd in 0..RandRes-1, so that 1 + (random - 0.5) * 0.06 = (970 + rnd)/1000
RandRes == 60

\* current_occupancy is passed in fifteenths of a percent:
\* ((15 - rooms_available) / 15) * 100 percent = (15 - rooms_available) * 100
OccScale == 15

Max(a, b) == IF a >= b THEN a ELSE b
Min(a, b) == IF a <= b THEN a ELSE b

min_price_of(dayNum) == IF dayNum <= 2 THEN 75 ELSE 80
max_price_of(dayNum) == 99

occupancy_multiplier_of_onetable(dayNum, current_occupancy) ==
    IF current_occupancy >= 85 * OccScale THEN 115
    ELSE IF current_occupancy >= 70 * OccScale THEN 108
    ELSE IF current_occupancy >= 50 * OccScale THEN 100
    ELSE IF current_occupancy >= 30 * OccScale THEN 95
    ELSE 88

occupancy_multiplier_of(dayNum, current_occupancy) ==
    IF dayNum <= 2
    THEN IF current_occupancy >= 80 * OccScale THEN 110
         ELSE IF current_occupancy >= 60 * OccScale THEN 100
         ELSE IF current_occupancy >= 40 * OccScale THEN 90
         ELSE 80
    ELSE IF current_occupancy >= 85 * OccScale THEN 115
         ELSE IF current_occupancy >= 70 * OccScale THEN 108
         ELSE IF current_occupancy >= 50 * OccScale THEN 100
         ELSE IF current_occupancy >= 30 * OccScale THEN 95
         ELSE 88

time_multiplier_of(time_of_day) ==
    IF time_of_day >= 14 /\ time_of_day <= 18 THEN 105
    ELSE IF time_of_day >= 19 /\ time_of_day <= 22 THEN 108
    ELSE IF time_of_day >= 23 \/ time_of_day <= 2 THEN 110
    ELSE IF time_of_day >= 6 /\ time_of_day <= 10 THEN 98
    ELSE 100

traffic_multiplier_of_five(user_traffic) ==
    IF user_traffic >= 25 THEN 106
    ELSE IF user_traffic >= 15 THEN 103
    ELSE IF user_traffic >= 8 THEN 100
    ELSE IF user_traffic >= 5 THEN 98
    ELSE 95

traffic_multiplier_of_ten(user_traffic) ==
    IF user_traffic >= 25 THEN 106
    ELSE IF user_traffic >= 15 THEN 103
    ELSE IF user_traffic >= 10 THEN 100
    ELSE IF user_traffic >= 3 THEN 98
    ELSE 95

traffic_multiplier_of(user_traffic) ==
    IF user_traffic >= 25 THEN 106
    ELSE IF user_traffic >= 15 THEN 103
    ELSE IF user_traffic >= 8 THEN 100
    ELSE IF user_traffic >= 3 THEN 98
    ELSE 95

\* 1 + (Math.random() - 0.5) * 0.06, in thousandths
random_factor_of(rnd) == 970 + rnd

\* Math.max(0.995, Math.min(1.03, random_factor)), in thousandths
small_fluctuation_of(rnd) == Max(995, Min(1030, random_factor_of(rnd)))

\* a correction that sets in at 5 percent above the base
momentum_multiplier_of_early(previous_price, base_price) ==
    IF previous_price * 100 > 105 * base_price THEN 98
    ELSE IF previous_price * 100 < 90 * base_price THEN 102
    ELSE 100

\* price_vs_base = previous_price / base_price against 1.10 and 0.90
momentum_multiplier_of(previous_price, base_price) ==
    IF previous_price * 100 > 110 * base_price THEN 98
    ELSE IF previous_price * 100 < 90 * base_price THEN 102
    ELSE 100

\* Exact product in two limbs <<hi, lo>> = hi * Limb + lo, 0 <= lo < Limb.
Limb == 1000000

MulLimb(p, k) ==
    LET q == p[2] * k IN <<p[1] * k + (q \div Limb), q % Limb>>

\* base_price * occupancy * time * traffic * fluctuation * momentum,
\* scaled by 100^4 * 1000 = 10^11
raw_price(base_price, occ, tm, tr, fl, mo) ==
    MulLimb(MulLimb(MulLimb(MulLimb(MulLimb(<<0, base_price>>, occ), tm), tr), fl), mo)

clamp_round_nofloor(p, min_price, max_price) ==
    Min(max_price, (p[1] + 50000) \div 100000)

\* Math.max(min_price, Math.min(max_price, new_price)) followed by
\* Math.round: for whole-number bounds, rounding the clamped value is the
\* clamp of the rounded value; round(x) = floor(x + 0.5) and
\* x = (hi + lo / 10^6) / 10^5.
clamp_round(p, min_price, max_price) ==
    Max(min_price, Min(max_price, (p[1] + 50000) \div 100000))

calculateDynamicPrice(base_price, day_of_week, current_occupancy, time_of_day, previous_price, user_traffic, rnd) ==
    LET dayNum == dayMap[day_of_week]
        min_price == min_price_of(dayNum)
        max_price == max_price_of(dayNum)
        new_price == clamp_round(
            raw_price(base_price,
                      occupancy_multiplier_of(dayNum, current_occupancy),
                      time_multiplier_of(time_of_day),
                      traffic_multiplier_of(user_traffic),
                      small_fluctuation_of(rnd),
                      momentum_multiplier_of(previous_price, base_price)),
            min_price, max_price)
    IN [new_price |-> new_price,
        price_change |-> new_price - previous_price,
        min_price |-> min_price,
        max_price |-> max_price]

---------------------------------------------------------------------------
(* Bounds of the model and the inputs that are enumerated *)

MaxTicks == 2        \* clock advances
MaxRequests == 3     \* booking requests
MaxSweeps == 1       \* cron ticks
MaxFixes == 1        \* fix-inventory requests
MaxOverrides == 1    \* override requests
MaxForces == 1       \* force-update requests
MaxCalls == 11       \* calculate_dynamic_price calls

Clients == {"c1", "c2"}              \* concurrent booking connections
Rooms == {1, 2}                      \* ids the schema provisions
RoomIds == {1, 2, 3}                 \* ids a request may name (3: no such row)
GuestEmail == "guest@dot"
OtherEmail == "other@dot"
NoEmail == ""                        \* request body without user_email
TickSteps == {1, 30}                 \* minutes the clock may jump
RandDraws == {0, 59}                 \* Math.random() draws, over RandRes
OverridePrices == {60, 75, 99, 100}
FixDraws == {0, 6}                   \* Math.floor(Math.random() * 7)

\* Tuesday 23:30, so that the day rolls over to a Wednesday
StartTime == 2 * MinutesPerDay + 23 * MinutesPerHour + 30

TOTAL_ROOMS == 15
HOLD_MINUTES == 30
BASE_PRICE == 86

---------------------------------------------------------------------------
(* Tables *)

\* INSERT INTO room_inventory ... (schema.sql): two Standard Room rows
InitInventory ==
    [r \in Rooms |->
        [current_price |-> IF r = 1 THEN 83 ELSE 72,
         rooms_available |-> 15,
         status |-> "active",
         last_price_update |-> StartTime]]

\* SELECT * FROM room_inventory WHERE status = 'active', as a sequence of
\* row snapshots in id order
RECURSIVE ActiveRowsFrom(_, _)
ActiveRowsFrom(inv, r) ==
    IF r \notin DOMAIN inv THEN <<>>
    ELSE (IF inv[r].status = "active"
          THEN <<[id |-> r,
                  current_price |-> inv[r].current_price,
                  rooms_available |-> inv[r].rooms_available]>>
          ELSE <<>>) \o ActiveRowsFrom(inv, r + 1)

ActiveRows(inv) == ActiveRowsFrom(inv, 1)

IdleBook == [pc |-> "idle", request |-> 0, id |-> 0, user_email |-> NoEmail,
             current_price |-> 0, rooms_available |-> 0, expiresAt |-> 0,
             status |-> 0, error |-> "", booking |-> 0, rooms_left |-> 0,
             notification |-> ""]

IdleSweep == [pc |-> "idle", rooms |-> <<>>, i |-> 0,
              currentDay |-> "", currentHour |-> 0]

IdleFix == [pc |-> "idle", rooms |-> <<>>, i |-> 0, runs |-> 0]

IdleForce == [pc |-> "idle", rooms |-> <<>>, i |-> 0,
              currentDay |-> "", currentHour |-> 0, status |-> 0, runs |-> 0]

NoOverride == [roomId |-> 0, price |-> 0, status |-> 0, dayNum |-> 0]

NoListing == [email |-> NoEmail, status |-> 0, rows |-> <<>>]

NoRooms == [status |-> 0, rows |-> <<>>]

\* MotelPricingEngine.__init__: self.price_history = []
NewEngine == [price_history |-> <<>>, returned |-> <<>>]

NoArgs == [day_of_week |-> "Sunday", current_occupancy |-> 0,
           time_of_day |-> 0, previous_price |-> 0, user_traffic |-> 0,
           rnd |-> 0]

NoCalc == [new_price |-> 0, price_change |-> 0, min_price |-> 0,
           max_price |-> 0]

Init ==
    /\ now = StartTime
    /\ ticks = 0
    /\ room_inventory = InitInventory
    /\ room_bookings = <<>>
    /\ book = [c \in Clients |-> IdleBook]
    /\ requests = 0
    /\ sweep = IdleSweep
    /\ sweeps = 0
    /\ fix = IdleFix
    /\ force = IdleForce
    /\ roomsReply = NoRooms
    /\ engine = NewEngine
    /\ override = NoOverride
    /\ overrides = 0
    /\ listing = NoListing
    /\ args = NoArgs
    /\ calc = NoCalc

---------------------------------------------------------------------------
(* The clock *)

Tick ==
    /\ ticks < MaxTicks
    /\ \E d \in TickSteps : now' = now + d
    /\ ticks' = ticks + 1
    /\ UNCHANGED <<engine, roomsReply, room_inventory, room_bookings, book, requests, sweep,
                   sweeps, fix, override, overrides, listing, args, calc,
                   force>>

---------------------------------------------------------------------------
(* POST /api/rooms/:id/book *)

\* res.status(status).json({ error }): the handler returns, its locals die
Reply(b, status, error) ==
    [IdleBook EXCEPT !.pc = "done", !.request = b.request, !.id = b.id,
                     !.user_email = b.user_email,
                     !.status = status, !.error = error]

\* if (room.rooms_available <= 0)
noRoomsLeft_lt(rooms_available) == rooms_available < 0
noRoomsLeft(rooms_available) == rooms_available <= 0

roomFound_anystatus(inv, id) == id \in DOMAIN inv

\* SELECT * FROM room_inventory WHERE id = $1 AND status = 'active'
\* returned a row: roomResult.rows.length # 0
roomFound(inv, id) == id \in DOMAIN inv /\ inv[id].status = "active"

\* request parsing, the email check, the SELECT and the availability check
BookSelect(c, id, user_email) ==
    /\ book[c].pc \in {"idle", "done"}
    /\ requests < MaxRequests
    /\ requests' = requests + 1
    /\ LET b == [IdleBook EXCEPT !.request = requests + 1, !.id = id,
                                 !.user_email = user_email] IN
       book' = [book EXCEPT ![c] =
         IF user_email = NoEmail
         THEN Reply(b, 400, "Email is required")
         ELSE IF ~roomFound(room_inventory, id)
         THEN Reply(b, 404, "Room not found or unavailable")
         ELSE LET room == room_inventory[id] IN
              IF noRoomsLeft(room.rooms_available)
              THEN Reply(b, 400, "No rooms available for this type")
              ELSE [b EXCEPT !.pc = "update",
                             !.current_price = room.current_price,
                             !.rooms_available = room.rooms_available,
                             !.expiresAt = now + HOLD_MINUTES]]
    /\ UNCHANGED <<engine, roomsReply, now, ticks, room_inventory, room_bookings, sweep, sweeps,
                   fix, override, overrides, listing, args, calc, force>>

BookUpdate_twice(c) ==
    /\ book[c].pc = "update"
    /\ room_inventory' =
         [room_inventory EXCEPT ![book[c].id].rooms_available = @ - 2]
    /\ book' = [book EXCEPT ![c].pc = "insert"]
    /\ UNCHANGED <<engine, roomsReply, now, ticks, room_bookings, requests, sweep, sweeps, fix,
                   override, overrides, listing, args, calc, force>>

BookUpdate_allrooms(c) ==
    /\ book[c].pc = "update"
    /\ room_inventory' =
         [r \in DOMAIN room_inventory |->
            [room_inventory[r] EXCEPT !.rooms_available = @ - 1]]
    /\ book' = [book EXCEPT ![c].pc = "insert"]
    /\ UNCHANGED <<engine, roomsReply, now, ticks, room_bookings, requests, sweep, sweeps, fix,
                   override, overrides, listing, args, calc, force>>

\* UPDATE room_inventory SET rooms_available = rooms_available - 1
BookUpdate(c) ==
    /\ book[c].pc = "update"
    /\ room_inventory' =
         [room_inventory EXCEPT ![book[c].id].rooms_available = @ - 1]
    /\ book' = [book EXCEPT ![c].pc = "insert"]
    /\ UNCHANGED <<engine, roomsReply, now, ticks, room_bookings, requests, sweep, sweeps, fix,
                   override, overrides, listing, args, calc, force>>

BookInsert_supersede(c) ==
    /\ book[c].pc = "insert"
    /\ room_bookings' = Append(
         [i \in DOMAIN room_bookings |->
            IF room_bookings[i].user_email = book[c].user_email
            THEN [room_bookings[i] EXCEPT !.status = "superseded"]
            ELSE room_bookings[i]],
         [room_inventory_id |-> book[c].id,
          user_email |-> book[c].user_email,
          booked_at |-> now,
          expires_at |-> book[c].expiresAt,
          locked_price |-> book[c].current_price,
          status |-> "active"])
    /\ book' = [book EXCEPT ![c] =
         [Reply(@, 200, "") EXCEPT
             !.booking = Len(room_bookings) + 1,
             !.rooms_left = book[c].rooms_available - 1]]
    /\ UNCHANGED <<engine, roomsReply, now, ticks, room_inventory, requests, sweep, sweeps, fix,
                   override, overrides, listing, args, calc, force>>

\* INSERT INTO room_bookings ... RETURNING *, then res.json
BookInsert(c) ==
    /\ book[c].pc = "insert"
    /\ room_bookings' = Append(room_bookings,
         [room_inventory_id |-> book[c].id,
          user_email |-> book[c].user_email,
          booked_at |-> now,
          expires_at |-> book[c].expiresAt,
          locked_price |-> book[c].current_price,
          status |-> "active"])
    /\ book' = [book EXCEPT ![c] =
         [Reply(@, 200, "") EXCEPT
             !.booking = Len(room_bookings) + 1,
             !.rooms_left = book[c].rooms_available - 1]]
    /\ UNCHANGED <<engine, roomsReply, now, ticks, room_inventory, requests, sweep, sweeps, fix,
                   override, overrides, listing, args, calc, force>>

\* the UPDATE or the INSERT rejects: catch (err) -> 500
BookFail(c) ==
    /\ book[c].pc \in {"update", "insert"}
    /\ book' = [book EXCEPT ![c] = Reply(@, 500, "Server error")]
    /\ UNCHANGED <<engine, roomsReply, now, ticks, room_inventory, room_bookings, requests, sweep,
                   sweeps, fix, override, overrides, listing, args, calc,
                   force>>

\* the SELECT rejects: catch (err) -> 500
BookSelectFail(c, id, user_email) ==
    /\ book[c].pc \in {"idle", "done"}
    /\ requests < MaxRequests
    /\ user_email # NoEmail
    /\ requests' = requests + 1
    /\ book' = [book EXCEPT ![c] =
         Reply([IdleBook EXCEPT !.request = requests + 1, !.id = id,
                                !.user_email = user_email],
               500, "Server error")]
    /\ UNCHANGED <<engine, roomsReply, now, ticks, room_inventory, room_bookings, sweep, sweeps,
                   fix, override, overrides, listing, args, calc, force>>

---------------------------------------------------------------------------
(* POST /api/rooms/:id/book of the server that mails the motel owner; its  *)
(* code up to the INSERT is the code modelled above                        *)

\* INSERT INTO room_bookings ... RETURNING *, then
\* await sendBookingNotification({...}): the handler is suspended on
\* await transporter.sendMail(emailContent) and has sent no response
BookInsertNotify(c) ==
    /\ book[c].pc = "insert"
    /\ room_bookings' = Append(room_bookings,
         [room_inventory_id |-> book[c].id,
          user_email |-> book[c].user_email,
          booked_at |-> now,
          expires_at |-> book[c].expiresAt,
          locked_price |-> book[c].current_price,
          status |-> "active"])
    /\ book' = [book EXCEPT ![c] =
         [@ EXCEPT !.pc = "notify",
                   !.booking = Len(room_bookings) + 1,
                   !.rooms_left = book[c].rooms_available - 1,
                   !.notification = "pending"]]
    /\ UNCHANGED <<engine, roomsReply, now, ticks, room_inventory, requests, sweep, sweeps, fix,
                   override, overrides, listing, args, calc, force>>

\* res.json({ message, booking, ..., notification_sent: true })
Booked(b, notification) ==
    [Reply(b, 200, "") EXCEPT !.booking = b.booking,
                              !.rooms_left = b.rooms_left,
                              !.notification = notification]

\* sendMail resolves: sendBookingNotification returns, then res.json
SendMailResolve(c) ==
    /\ book[c].pc = "notify"
    /\ book' = [book EXCEPT ![c] = Booked(@, "sent")]
    /\ UNCHANGED <<engine, roomsReply, now, ticks, room_inventory, room_bookings, requests, sweep,
                   sweeps, fix, override, overrides, listing, args, calc,
                   force>>

SendMailReject_throws(c) ==
    /\ book[c].pc = "notify"
    /\ book' = [book EXCEPT ![c] =
         [Reply(@, 500, "Server error") EXCEPT !.notification = "failed"]]
    /\ UNCHANGED <<engine, roomsReply, now, ticks, room_inventory, room_bookings, requests, sweep,
                   sweeps, fix, override, overrides, listing, args, calc,
                   force>>

\* sendMail rejects: the catch inside sendBookingNotification logs the
\* error and the function returns normally, then res.json
SendMailReject(c) ==
    /\ book[c].pc = "notify"
    /\ book' = [book EXCEPT ![c] = Booked(@, "failed")]
    /\ UNCHANGED <<engine, roomsReply, now, ticks, room_inventory, room_bookings, requests, sweep,
                   sweeps, fix, override, overrides, listing, args, calc,
                   force>>

---------------------------------------------------------------------------
(* cron.schedule('*/1 * * * *'): the pricing sweep *)

\* Math.floor(Math.random() * 15) draws of the simulated traffic
TrafficDraws == {0, 14}

\* room.view_count || Math.floor(Math.random() * 15) + 5; view_count is 0
\* in every row: no statement of the program writes it
userTrafficOf(draw) == draw + 5

\* ((15 - room.rooms_available) / 15) * 100, in fifteenths of a percent
occupancyPercent(rooms_available) == (TOTAL_ROOMS - rooms_available) * 100

\* SELECT of the active rows, then new Date()
CronSelect ==
    /\ sweep.pc = "idle"
    /\ sweeps < MaxSweeps
    /\ sweeps' = sweeps + 1
    /\ LET rooms == ActiveRows(room_inventory) IN
       sweep' = IF rooms = <<>> THEN IdleSweep
                ELSE [pc |-> "loop", rooms |-> rooms, i |-> 1,
                      currentDay |-> currentDayOf(now),
                      currentHour |-> getHours(now)]
    /\ UNCHANGED <<engine, roomsReply, now, ticks, room_inventory, room_bookings, book, requests,
                   fix, override, overrides, listing, args, calc, force>>

CronUpdate_threshold(draw, rnd) ==
    /\ sweep.pc = "loop"
    /\ LET room == sweep.rooms[sweep.i]
           result == calculateDynamicPrice(BASE_PRICE, sweep.currentDay,
                        occupancyPercent(room.rooms_available),
                        sweep.currentHour, room.current_price,
                        userTrafficOf(draw), rnd)
       IN room_inventory' =
            IF result.new_price - room.current_price \in -1..1
            THEN room_inventory
            ELSE [room_inventory EXCEPT ![room.id] =
                    [@ EXCEPT !.current_price = result.new_price,
                              !.last_price_update = now]]
    /\ sweep' = IF sweep.i = Len(sweep.rooms) THEN IdleSweep
                ELSE [sweep EXCEPT !.i = @ + 1]
    /\ UNCHANGED <<engine, roomsReply, now, ticks, room_bookings, book, requests, sweeps, fix,
                   override, overrides, listing, args, calc, force>>

\* one iteration of the loop: calculateDynamicPrice on the row read by the
\* SELECT, then UPDATE ... SET current_price, last_price_update = NOW()
CronUpdate(draw, rnd) ==
    /\ sweep.pc = "loop"
    /\ LET room == sweep.rooms[sweep.i]
           result == calculateDynamicPrice(BASE_PRICE, sweep.currentDay,
                        occupancyPercent(room.rooms_available),
                        sweep.currentHour, room.current_price,
                        userTrafficOf(draw), rnd)
       IN room_inventory' = [room_inventory EXCEPT ![room.id] =
              [@ EXCEPT !.current_price = result.new_price,
                        !.last_price_update = now]]
    /\ sweep' = IF sweep.i = Len(sweep.rooms) THEN IdleSweep
                ELSE [sweep EXCEPT !.i = @ + 1]
    /\ UNCHANGED <<engine, roomsReply, now, ticks, room_bookings, book, requests, sweeps, fix,
                   override, overrides, listing, args, calc, force>>

\* the UPDATE rejects: the catch around the whole loop logs and returns
CronFail ==
    /\ sweep.pc = "loop"
    /\ sweep' = IdleSweep
    /\ UNCHANGED <<engine, roomsReply, now, ticks, room_inventory, room_bookings, book, requests,
                   sweeps, fix, override, overrides, listing, args, calc,
                   force>>

---------------------------------------------------------------------------
(* GET /api/fix-inventory *)

RECURSIVE Ids(_)
Ids(rows) == IF rows = <<>> THEN <<>> ELSE <<Head(rows).id>> \o Ids(Tail(rows))

\* SELECT id FROM room_inventory WHERE status = 'active'
FixSelect ==
    /\ fix.pc = "idle"
    /\ fix.runs < MaxFixes
    /\ LET rooms == Ids(ActiveRows(room_inventory)) IN
       fix' = [pc |-> IF rooms = <<>> THEN "idle" ELSE "loop",
               rooms |-> rooms, i |-> IF rooms = <<>> THEN 0 ELSE 1,
               runs |-> fix.runs + 1]
    /\ UNCHANGED <<engine, roomsReply, now, ticks, room_inventory, room_bookings, book, requests,
                   sweep, sweeps, override, overrides, listing, args, calc,
                   force>>

\* realisticCount = Math.floor(Math.random() * 7) + 2, then the UPDATE
FixUpdate(draw) ==
    /\ fix.pc = "loop"
    /\ room_inventory' =
         [room_inventory EXCEPT ![fix.rooms[fix.i]].rooms_available = draw + 2]
    /\ fix' = IF fix.i = Len(fix.rooms)
              THEN [fix EXCEPT !.pc = "idle", !.rooms = <<>>, !.i = 0]
              ELSE [fix EXCEPT !.i = @ + 1]
    /\ UNCHANGED <<engine, roomsReply, now, ticks, room_bookings, book, requests, sweep, sweeps,
                   override, overrides, listing, args, calc, force>>

\* the UPDATE rejects: catch -> 500
FixFail ==
    /\ fix.pc = "loop"
    /\ fix' = [fix EXCEPT !.pc = "idle", !.rooms = <<>>, !.i = 0]
    /\ UNCHANGED <<engine, roomsReply, now, ticks, room_inventory, room_bookings, book, requests,
                   sweep, sweeps, override, overrides, listing, args, calc,
                   force>>

---------------------------------------------------------------------------
(* GET /api/force-update *)

\* Math.floor(Math.random() * 20) draws of the simulated traffic
ForceDraws == {0, 19}

\* SELECT of the active rows, then new Date()
ForceSelect ==
    /\ force.pc = "idle"
    /\ force.runs < MaxForces
    /\ LET rooms == ActiveRows(room_inventory) IN
       force' = IF rooms = <<>>
                THEN [IdleForce EXCEPT !.status = 200, !.runs = force.runs + 1]
                ELSE [pc |-> "loop", rooms |-> rooms, i |-> 1,
                      currentDay |-> currentDayOf(now),
                      currentHour |-> getHours(now),
                      status |-> 0, runs |-> force.runs + 1]
    /\ UNCHANGED <<engine, roomsReply, now, ticks, room_inventory, room_bookings, book, requests, sweep,
                   sweeps, fix, override, overrides, listing, args, calc>>

ForceUpdate_hour(draw, rnd) ==
    /\ force.pc = "loop"
    /\ LET room == force.rooms[force.i]
           result == calculateDynamicPrice(BASE_PRICE, force.currentDay,
                        occupancyPercent(room.rooms_available),
                        force.currentHour, room.current_price,
                        userTrafficOf(draw), rnd)
       IN room_inventory' = [room_inventory EXCEPT ![room.id] =
              [@ EXCEPT !.current_price = result.new_price,
                        !.last_price_update = now - (now % MinutesPerHour)]]
    /\ force' = IF force.i = Len(force.rooms)
                THEN [IdleForce EXCEPT !.status = 200, !.runs = force.runs]
                ELSE [force EXCEPT !.i = @ + 1]
    /\ UNCHANGED <<engine, roomsReply, now, ticks, room_bookings, book, requests, sweep,
                   sweeps, fix, override, overrides, listing, args, calc>>

\* one iteration of the loop: calculateDynamicPrice on the row read by the
\* SELECT with userTraffic = Math.floor(Math.random() * 20) + 5, then
\* UPDATE ... SET current_price, last_price_update = NOW(); after the last
\* row, res.json
ForceUpdate(draw, rnd) ==
    /\ force.pc = "loop"
    /\ LET room == force.rooms[force.i]
           result == calculateDynamicPrice(BASE_PRICE, force.currentDay,
                        occupancyPercent(room.rooms_available),
                        force.currentHour, room.current_price,
                        userTrafficOf(draw), rnd)
       IN room_inventory' = [room_inventory EXCEPT ![room.id] =
              [@ EXCEPT !.current_price = result.new_price,
                        !.last_price_update = now]]
    /\ force' = IF force.i = Len(force.rooms)
                THEN [IdleForce EXCEPT !.status = 200, !.runs = force.runs]
                ELSE [force EXCEPT !.i = @ + 1]
    /\ UNCHANGED <<engine, roomsReply, now, ticks, room_bookings, book, requests, sweep,
                   sweeps, fix, override, overrides, listing, args, calc>>

\* the UPDATE rejects: catch -> 500
ForceFail ==
    /\ force.pc = "loop"
    /\ force' = [IdleForce EXCEPT !.status = 500, !.runs = force.runs]
    /\ UNCHANGED <<engine, roomsReply, now, ticks, room_inventory, room_bookings, book, requests, sweep,
                   sweeps, fix, override, overrides, listing, args, calc>>

---------------------------------------------------------------------------
(* POST /api/admin/override-price *)

override_min_price_wed(dayNum) == IF dayNum <= 3 THEN 75 ELSE 80

\* const min_price = dayNum <= 2 ? 75 : 80
override_min_price(dayNum) == IF dayNum <= 2 THEN 75 ELSE 80
\* const max_price = 99
override_max_price == 99

\* if (price < min_price || price > max_price) return res.status(400)
overrideRejected(price, dayNum) ==
    price < override_min_price(dayNum) \/ price > override_max_price

OverridePrice_nowhere(roomId, price) ==
    /\ overrides < MaxOverrides
    /\ overrides' = overrides + 1
    /\ LET dayNum == getDay(now) IN
       IF overrideRejected(price, dayNum)
       THEN /\ override' = [roomId |-> roomId, price |-> price,
                            status |-> 400, dayNum |-> dayNum]
            /\ UNCHANGED room_inventory
       ELSE /\ override' = [roomId |-> roomId, price |-> price,
                            status |-> 200, dayNum |-> dayNum]
            /\ room_inventory' =
                 [r \in DOMAIN room_inventory |->
                    [room_inventory[r] EXCEPT !.current_price = price]]
    /\ UNCHANGED <<engine, roomsReply, now, ticks, room_bookings, book, requests, sweep, sweeps,
                   fix, listing, args, calc, force>>

\* the range check, the UPDATE (of no row when roomId names none), res.json
OverridePrice(roomId, price) ==
    /\ overrides < MaxOverrides
    /\ overrides' = overrides + 1
    /\ LET dayNum == getDay(now) IN
       IF overrideRejected(price, dayNum)
       THEN /\ override' = [roomId |-> roomId, price |-> price,
                            status |-> 400, dayNum |-> dayNum]
            /\ UNCHANGED room_inventory
       ELSE /\ override' = [roomId |-> roomId, price |-> price,
                            status |-> 200, dayNum |-> dayNum]
            /\ room_inventory' =
                 IF roomId \in DOMAIN room_inventory
                 THEN [room_inventory EXCEPT ![roomId].current_price = price]
                 ELSE room_inventory
    /\ UNCHANGED <<engine, roomsReply, now, ticks, room_bookings, book, requests, sweep, sweeps,
                   fix, listing, args, calc, force>>

\* the UPDATE rejects: catch -> 500
OverrideFail(roomId, price) ==
    /\ overrides < MaxOverrides
    /\ ~overrideRejected(price, getDay(now))
    /\ overrides' = overrides + 1
    /\ override' = [roomId |-> roomId, price |-> price, status |-> 500,
                    dayNum |-> getDay(now)]
    /\ UNCHANGED <<engine, roomsReply, now, ticks, room_inventory, room_bookings, book, requests,
                   sweep, sweeps, fix, listing, args, calc, force>>

---------------------------------------------------------------------------
(* GET /api/bookings/:email *)

\* ORDER BY rb.expires_at ASC (ties in id order)
RECURSIVE InsertByExpires(_, _)
InsertByExpires(row, rows) ==
    IF rows = <<>> THEN <<row>>
    ELSE IF row.expires_at < Head(rows).expires_at THEN <<row>> \o rows
    ELSE <<Head(rows)>> \o InsertByExpires(row, Tail(rows))

\* WHERE rb.user_email = $1 AND rb.status = 'active', with
\* EXTRACT(EPOCH FROM (rb.expires_at - NOW())) as seconds_remaining
RECURSIVE ActiveBookingsOf(_, _, _, _)
ActiveBookingsOf(bookings, email, t, i) ==
    IF i > Len(bookings) THEN <<>>
    ELSE LET rest == ActiveBookingsOf(bookings, email, t, i + 1)
             rb == bookings[i]
         IN IF rb.user_email = email /\ rb.status = "active"
            THEN InsertByExpires(
                   [id |-> i,
                    expires_at |-> rb.expires_at,
                    status |-> rb.status,
                    seconds_remaining |-> (rb.expires_at - t) * 60], rest)
            ELSE rest

\* a listing that deletes the customer's lapsed holds as it reads them
ListBookings_purge(email) ==
    /\ listing' = [email |-> email, status |-> 200,
                   rows |-> ActiveBookingsOf(room_bookings, email, now, 1)]
    /\ room_bookings' = SelectSeq(room_bookings,
         LAMBDA rb : ~(rb.user_email = email /\ rb.expires_at < now))
    /\ UNCHANGED <<engine, roomsReply, now, ticks, room_inventory, book, requests,
                   sweep, sweeps, fix, override, overrides, args, calc,
                   force>>

ListBookings(email) ==
    /\ listing' = [email |-> email, status |-> 200,
                   rows |-> ActiveBookingsOf(room_bookings, email, now, 1)]
    /\ UNCHANGED <<engine, roomsReply, now, ticks, room_inventory, room_bookings, book, requests,
                   sweep, sweeps, fix, override, overrides, args, calc,
                   force>>

---------------------------------------------------------------------------
(* GET /api/rooms *)

\* Math.floor(Math.random() * 7) draws of realisticRoomsLeft
RoomsLeftDraws == {0, 6}

\* result.rows.map(room => ({...room, rooms_available: realisticRoomsLeft,
\* active_bookings: 15 - realisticRoomsLeft, ...})), one draw for each row
RoomsReplyRows(rows, draws) ==
    [i \in DOMAIN rows |->
        LET realisticRoomsLeft == draws[i] + 2
        IN [id |-> rows[i].id,
            current_price |-> rows[i].current_price,
            total_rooms |-> TOTAL_ROOMS,
            rooms_available |-> realisticRoomsLeft,
            active_bookings |-> TOTAL_ROOMS - realisticRoomsLeft]]

\* SELECT * FROM room_inventory WHERE status = 'active', then res.json(rooms)
ListRooms ==
    /\ LET rows == ActiveRows(room_inventory) IN
       \E draws \in [DOMAIN rows -> RoomsLeftDraws] :
          roomsReply' = [status |-> 200, rows |-> RoomsReplyRows(rows, draws)]
    /\ UNCHANGED <<engine, now, ticks, room_inventory, room_bookings, book, requests,
                   sweep, sweeps, fix, force, override, overrides, listing,
                   args, calc>>

\* the SELECT rejects: catch (err) -> 500 'Server error'
ListRoomsFail ==
    /\ roomsReply' = [status |-> 500, rows |-> <<>>]
    /\ UNCHANGED <<engine, now, ticks, room_inventory, room_bookings, book, requests,
                   sweep, sweeps, fix, force, override, overrides, listing,
                   args, calc>>

---------------------------------------------------------------------------
(* MotelPricingEngine: the weighted-sum engine *)

\* prices are in cents, price_multiplier in hundredths
EngineBasePrice == 8600
MIN_MULTIPLIER == 80
MAX_MULTIPLIER == 120
HISTORY_LIMIT == 10

\* values of the clamped weighted sum that the calls below return
EngineMultipliers == {MIN_MULTIPLIER, MAX_MULTIPLIER}

\* a history that drops its newest entry when it is full
update_price_history_poplast(price_history, new_price, change, timestamp) ==
    LET appended == Append(price_history,
            [price |-> new_price, change |-> change, timestamp |-> timestamp])
    IN IF Len(appended) > HISTORY_LIMIT
       THEN SubSeq(appended, 1, Len(appended) - 1)
       ELSE appended

\* self.price_history.append({...}); if len(self.price_history) > 10:
\* self.price_history.pop(0)
update_price_history(price_history, new_price, change, timestamp) ==
    LET appended == Append(price_history,
            [price |-> new_price, change |-> change, timestamp |-> timestamp])
    IN IF Len(appended) > HISTORY_LIMIT THEN Tail(appended) ELSE appended

\* one call: the weighted sum of the five multipliers, clamped to
\* [MIN_MULTIPLIER, MAX_MULTIPLIER], is drawn from that range;
\* new_price = round(base_price * price_multiplier, 2), then
\* self._update_price_history(new_price, price_change) and the return
calculate_dynamic_price(base_price, previous_price, price_multiplier) ==
    /\ Len(engine.returned) < MaxCalls
    /\ LET new_price == (base_price * price_multiplier) \div 100
           price_change == new_price - previous_price
       IN engine' =
            [price_history |->
                update_price_history(engine.price_history, new_price,
                                     price_change, now),
             returned |->
                Append(engine.returned,
                       [new_price |-> new_price,
                        price_change |-> price_change])]
    /\ UNCHANGED <<now, ticks, room_inventory, room_bookings, book, requests,
                   sweep, sweeps, fix, force, override, overrides, listing,
                   roomsReply, args, calc>>

---------------------------------------------------------------------------
(* The server *)

\* Each specification composes the handlers that share the state a group
\* of properties is about; every behaviour of one of them is a behaviour of
\* the server.

\* Bookings contending for room 1 while the inventory fix runs.
NextHold ==
    \/ \E c \in Clients, id \in {1, 3}, e \in {GuestEmail, NoEmail} :
          BookSelect(c, id, e)
    \/ \E c \in Clients : BookSelectFail(c, 1, GuestEmail)
    \/ \E c \in Clients : BookUpdate(c)
    \/ \E c \in Clients : BookInsert(c)
    \/ \E c \in Clients : BookFail(c)
    \/ FixSelect
    \/ \E draw \in FixDraws : FixUpdate(draw)
    \/ FixFail

SpecHold == Init /\ [][NextHold]_vars

\* Holds ageing under the clock, and the bookings read.
NextExpiry ==
    \/ Tick
    \/ \E c \in Clients : BookSelect(c, 1, GuestEmail)
    \/ \E c \in Clients : BookUpdate(c)
    \/ \E c \in Clients : BookInsert(c)
    \/ \E c \in Clients : BookFail(c)
    \/ \E e \in {GuestEmail, OtherEmail} : ListBookings(e)

SpecExpiry == Init /\ [][NextExpiry]_vars

\* The event loop runs every handler that is ready, the clock advances and
\* both customers keep polling their bookings.
SpecExpiryFair ==
    /\ SpecExpiry
    /\ WF_vars(NextExpiry)
    /\ WF_vars(Tick)
    /\ WF_vars(ListBookings(GuestEmail))
    /\ WF_vars(ListBookings(OtherEmail))

\* Prices written by the sweep and the override as the day changes.
NextRates ==
    \/ Tick
    \/ CronSelect
    \/ \E draw \in TrafficDraws, rnd \in RandDraws : CronUpdate(draw, rnd)
    \/ CronFail
    \/ \E roomId \in RoomIds, price \in OverridePrices :
          OverridePrice(roomId, price)
    \/ \E roomId \in RoomIds, price \in OverridePrices :
          OverrideFail(roomId, price)

SpecRates == Init /\ [][NextRates]_vars

\* Overrides on their own, on either side of the change of day.
NextOverride ==
    \/ Tick
    \/ \E roomId \in RoomIds, price \in OverridePrices :
          OverridePrice(roomId, price)
    \/ \E roomId \in RoomIds, price \in OverridePrices :
          OverrideFail(roomId, price)

SpecOverride == Init /\ [][NextOverride]_vars

\* A booking locking a price while the sweep and the override write prices.
NextLock ==
    \/ \E id \in Rooms : BookSelect("c1", id, GuestEmail)
    \/ BookUpdate("c1")
    \/ BookInsert("c1")
    \/ BookFail("c1")
    \/ CronSelect
    \/ \E draw \in TrafficDraws, rnd \in RandDraws : CronUpdate(draw, rnd)
    \/ CronFail
    \/ \E roomId \in RoomIds, price \in OverridePrices :
          OverridePrice(roomId, price)
    \/ \E roomId \in RoomIds, price \in OverridePrices :
          OverrideFail(roomId, price)

SpecLock == Init /\ [][NextLock]_vars

\* Bookings on the server that mails the motel owner.
NextNotify ==
    \/ \E c \in Clients : BookSelect(c, 1, GuestEmail)
    \/ \E c \in Clients : BookUpdate(c)
    \/ \E c \in Clients : BookInsertNotify(c)
    \/ \E c \in Clients : BookFail(c)
    \/ \E c \in Clients : SendMailResolve(c)
    \/ \E c \in Clients : SendMailReject(c)

SpecNotify == Init /\ [][NextNotify]_vars

\* One customer's holds on room 1 ageing under the clock.
NextStatus ==
    \/ Tick
    \/ BookSelect("c1", 1, GuestEmail)
    \/ BookUpdate("c1")
    \/ BookInsert("c1")
    \/ ListBookings(GuestEmail)

SpecStatus == Init /\ [][NextStatus]_vars

\* Bookings against a table in which room 2 may have been taken off sale:
\* the status column of a row is set in the database, no handler writes it.
RoomStatuses == {"active", "inactive"}

InitCatalog ==
    /\ now = StartTime
    /\ ticks = 0
    /\ \E st \in RoomStatuses :
          room_inventory = [InitInventory EXCEPT ![2].status = st]
    /\ room_bookings = <<>>
    /\ book = [c \in Clients |-> IdleBook]
    /\ requests = 0
    /\ sweep = IdleSweep
    /\ sweeps = 0
    /\ fix = IdleFix
    /\ force = IdleForce
    /\ roomsReply = NoRooms
    /\ engine = NewEngine
    /\ override = NoOverride
    /\ overrides = 0
    /\ listing = NoListing
    /\ args = NoArgs
    /\ calc = NoCalc

NextCatalog ==
    \/ \E c \in Clients, id \in RoomIds, e \in {GuestEmail, NoEmail} :
          BookSelect(c, id, e)
    \/ \E c \in Clients, id \in RoomIds : BookSelectFail(c, id, GuestEmail)
    \/ \E c \in Clients : BookUpdate(c)
    \/ \E c \in Clients : BookInsert(c)

SpecCatalog == InitCatalog /\ [][NextCatalog]_vars

\* Sweeps whose statements all complete, over a table in which room 2 may
\* be off sale and the price of a room may have been set by hand.
NextSweep ==
    \/ Tick
    \/ CronSelect
    \/ \E draw \in TrafficDraws, rnd \in RandDraws : CronUpdate(draw, rnd)
    \/ \E roomId \in Rooms : OverridePrice(roomId, 75)

SpecSweep == InitCatalog /\ [][NextSweep]_vars

\* Every writer of a unit's row: the sweep, the forced update, the override
\* and one booking, on room 1 under an advancing clock, with room 2 off sale.
InitOffSale == InitCatalog /\ room_inventory[2].status = "inactive"

NextStamp ==
    \/ Tick
    \/ CronSelect
    \/ \E draw \in {0}, rnd \in {0} : CronUpdate(draw, rnd)
    \/ ForceSelect
    \/ \E draw \in {19}, rnd \in {59} : ForceUpdate(draw, rnd)
    \/ OverridePrice(1, 75)
    \/ (requests = 0 /\ BookSelect("c1", 1, GuestEmail))
    \/ BookUpdate("c1")
    \/ BookInsert("c1")

SpecStamp == InitOffSale /\ [][NextStamp]_vars

\* The sweep pricing room 1 from the availability that the inventory fix
\* and contending bookings leave.
NextOccupancy ==
    \/ FixSelect
    \/ \E draw \in {0} : FixUpdate(draw)
    \/ \E c \in Clients : BookSelect(c, 1, GuestEmail)
    \/ \E c \in Clients : BookUpdate(c)
    \/ \E c \in Clients : BookInsert(c)
    \/ CronSelect
    \/ \E draw \in {0}, rnd \in {0} : CronUpdate(draw, rnd)

SpecOccupancy == Init /\ [][NextOccupancy]_vars

\* Bookings, overrides and the sweep at work on both rooms.
NextUnits ==
    \/ \E id \in Rooms : BookSelect("c1", id, GuestEmail)
    \/ BookUpdate("c1")
    \/ BookInsert("c1")
    \/ \E roomId \in Rooms : OverridePrice(roomId, 99)
    \/ CronSelect
    \/ \E draw \in {0}, rnd \in {0} : CronUpdate(draw, rnd)

SpecUnits == Init /\ [][NextUnits]_vars

\* Two holds of one customer on room 1 (room 2 is off sale) while the
\* clock, the listing and the sweep go on around them.
NextHistory ==
    \/ Tick
    \/ (requests < 2 /\ BookSelect("c1", 1, GuestEmail))
    \/ BookUpdate("c1")
    \/ BookInsert("c1")
    \/ ListBookings(GuestEmail)
    \/ CronSelect
    \/ \E draw \in {0}, rnd \in {0} : CronUpdate(draw, rnd)

SpecHistory == InitOffSale /\ [][NextHistory]_vars

\* The rooms listed while customers book room 1 and an administrator
\* resets the inventory.
NextRooms ==
    \/ ListRooms
    \/ ListRoomsFail
    \/ \E c \in Clients : BookSelect(c, 1, GuestEmail)
    \/ \E c \in Clients : BookUpdate(c)
    \/ \E c \in Clients : BookInsert(c)
    \/ FixSelect
    \/ \E draw \in FixDraws : FixUpdate(draw)

SpecRooms == Init /\ [][NextRooms]_vars

\* A caller that feeds each price the engine returns into the next call,
\* starting from the base price (simulate_pricing_scenario).
NextEngine ==
    \E price_multiplier \in EngineMultipliers :
       calculate_dynamic_price(EngineBasePrice,
          IF engine.returned = <<>> THEN EngineBasePrice
          ELSE engine.returned[Len(engine.returned)].new_price,
          price_multiplier)

SpecEngine == Init /\ [][NextEngine]_vars

\* Overrides arriving while a customer books room 1.
NextAdmin ==
    \/ BookSelect("c1", 1, GuestEmail)
    \/ BookUpdate("c1")
    \/ BookInsert("c1")
    \/ \E roomId \in RoomIds, price \in OverridePrices :
          OverridePrice(roomId, price)
    \/ \E roomId \in RoomIds, price \in OverridePrices :
          OverrideFail(roomId, price)

SpecAdmin == Init /\ [][NextAdmin]_vars

---------------------------------------------------------------------------
(* calculateDynamicPrice on enumerated inputs *)

OccupancyPercents == {0, 10, 30, 40, 50, 60, 70, 80, 85, 95, 100}
PreviousPrices == {72, 77, 78, 94, 95, 99}
TrafficCounts == {0, 3, 8, 15, 25}
PriceRandDraws == {0, 24, 25, 26, 30, 59}

InitPrice ==
    /\ now = StartTime
    /\ ticks = 0
    /\ room_inventory = InitInventory
    /\ room_bookings = <<>>
    /\ book = [c \in Clients |-> IdleBook]
    /\ requests = 0
    /\ sweep = IdleSweep
    /\ sweeps = 0
    /\ fix = IdleFix
    /\ force = IdleForce
    /\ roomsReply = NoRooms
    /\ engine = NewEngine
    /\ override = NoOverride
    /\ overrides = 0
    /\ listing = NoListing
    /\ args \in [day_of_week : {DayNames[i] : i \in 1..7},
                 current_occupancy : {p * OccScale : p \in OccupancyPercents},
                 time_of_day : 0..(HoursPerDay - 1),
                 previous_price : PreviousPrices,
                 user_traffic : TrafficCounts,
                 rnd : PriceRandDraws]
    /\ calc = NoCalc

PriceCall ==
    /\ calc = NoCalc
    /\ calc' = calculateDynamicPrice(BASE_PRICE, args.day_of_week,
                  args.current_occupancy, args.time_of_day,
                  args.previous_price, args.user_traffic, args.rnd)
    /\ UNCHANGED <<engine, roomsReply, now, ticks, room_inventory, room_bookings, book, requests,
                   sweep, sweeps, fix, override, overrides, listing, args,
                   force>>

SpecPrice == InitPrice /\ [][PriceCall]_vars

\* calculateDynamicPrice on a Saturday at 50 percent occupancy and noon,
\* where the occupancy and time multipliers are 1.00, over every traffic
\* count, previous price and random draw of the ranges below.
FactorTraffic == 0..30
FactorPreviousPrices == 70..100
FactorRandDraws == 0..(RandRes - 1)

InitFactors ==
    /\ now = StartTime
    /\ ticks = 0
    /\ room_inventory = InitInventory
    /\ room_bookings = <<>>
    /\ book = [c \in Clients |-> IdleBook]
    /\ requests = 0
    /\ sweep = IdleSweep
    /\ sweeps = 0
    /\ fix = IdleFix
    /\ force = IdleForce
    /\ roomsReply = NoRooms
    /\ engine = NewEngine
    /\ override = NoOverride
    /\ overrides = 0
    /\ listing = NoListing
    /\ args \in [day_of_week : {"Saturday"},
                 current_occupancy : {50 * OccScale},
                 time_of_day : {12},
                 previous_price : FactorPreviousPrices,
                 user_traffic : FactorTraffic,
                 rnd : FactorRandDraws]
    /\ calc = NoCalc

SpecFactors == InitFactors /\ [][PriceCall]_vars

\* A caller that repeats calculateDynamicPrice(86, day, occupancy, hour,
\* previous_price, traffic): the six parameters are all the caller passes,
\* Math.random() is drawn inside the function on every call.
CallDays == {"Monday", "Saturday"}
CallOccupancies == {10, 95}
CallHours == {9, 15}
CallPreviousPrices == {77, 95}
CallTraffic == {0, 25}

InitCall ==
    /\ now = StartTime
    /\ ticks = 0
    /\ room_inventory = InitInventory
    /\ room_bookings = <<>>
    /\ book = [c \in Clients |-> IdleBook]
    /\ requests = 0
    /\ sweep = IdleSweep
    /\ sweeps = 0
    /\ fix = IdleFix
    /\ force = IdleForce
    /\ roomsReply = NoRooms
    /\ engine = NewEngine
    /\ override = NoOverride
    /\ overrides = 0
    /\ listing = NoListing
    /\ args \in [day_of_week : CallDays,
                 current_occupancy : {p * OccScale : p \in CallOccupancies},
                 time_of_day : CallHours,
                 previous_price : CallPreviousPrices,
                 user_traffic : CallTraffic,
                 rnd : {0}]
    /\ calc = NoCalc

\* args.rnd records the draw of the latest call
PriceCallRandom ==
    /\ \E rnd \in PriceRandDraws :
          /\ calc' = calculateDynamicPrice(BASE_PRICE, args.day_of_week,
                        args.current_occupancy, args.time_of_day,
                        args.previous_price, args.user_traffic, rnd)
          /\ args' = [args EXCEPT !.rnd = rnd]
    /\ UNCHANGED <<engine, roomsReply, now, ticks, room_inventory, room_bookings, book, requests,
                   sweep, sweeps, fix, override, overrides, listing, force>>

SpecRandom == InitCall /\ [][PriceCallRandom]_vars

---------------------------------------------------------------------------
(* Properties of the hold and inventory lifecycle *)

NoRoomsError == "No rooms available for this type"

\* C1: of two overlapping booking calls that both read rooms_available = 1
\* on the same unit, only one succeeds.  c was accepted before d and its
\* hold was inserted after d's, so the calls overlap; rooms_left = 0 is the
\* availability each call read, less one.
OneWinnerOnLastRoom ==
    \A c, d \in Clients :
        ~ /\ c # d
          /\ book[c].status = 200 /\ book[d].status = 200
          /\ book[c].id = book[d].id
          /\ book[c].request < book[d].request
          /\ book[c].booking > book[d].booking
          /\ book[c].rooms_left = 0 /\ book[d].rooms_left = 0

\* C2: in every reachable state 0 <= available_count <= total_count for
\* every unit.
AvailabilityInRange ==
    \A r \in Rooms :
        /\ 0 <= room_inventory[r].rooms_available
        /\ room_inventory[r].rooms_available <= TOTAL_ROOMS

\* C3: a booking call whose read completes and finds an active unit with
\* rooms_available = 0 answers the no-rooms error and changes neither the
\* inventory (availability, price) nor the set of holds.
NoRoomsNoMutation ==
    [][\A c \in Clients :
         ( /\ requests' = requests + 1
           /\ book'[c].request = requests'
           /\ book'[c].user_email # NoEmail
           /\ book'[c].id \in DOMAIN room_inventory
           /\ room_inventory[book'[c].id].status = "active"
           /\ room_inventory[book'[c].id].rooms_available = 0
           /\ book'[c].status # 500 )
         => /\ book'[c].pc = "done"
            /\ book'[c].status = 400
            /\ book'[c].error = NoRoomsError
            /\ room_inventory' = room_inventory
            /\ room_bookings' = room_bookings]_vars

NoRoomsAnswered ==
    \E c \in Clients :
        /\ book[c].pc = "done"
        /\ book[c].error = NoRoomsError
        /\ book[c].id \in Rooms
        /\ room_inventory[book[c].id].rooms_available = 0

\* C4: a successful booking call takes exactly 1 from the unit's
\* rooms_available (and nothing from any other unit) and appends exactly
\* one hold, for that unit and customer, with status active; a call
\* succeeds only through these two steps.
SuccessfulHoldEffect ==
    [][\A c \in Clients :
         /\ (book[c].pc = "update" /\ book'[c].pc = "insert")
            => /\ room_inventory'[book[c].id].rooms_available
                    = room_inventory[book[c].id].rooms_available - 1
               /\ \A r \in Rooms \ {book[c].id} :
                     room_inventory'[r] = room_inventory[r]
               /\ room_bookings' = room_bookings
         /\ (book[c].status # 200 /\ book'[c].status = 200)
            => /\ book[c].pc = "insert"
               /\ Len(room_bookings') = Len(room_bookings) + 1
               /\ SubSeq(room_bookings', 1, Len(room_bookings)) = room_bookings
               /\ book'[c].booking = Len(room_bookings')
               /\ room_bookings'[Len(room_bookings')].room_inventory_id
                    = book[c].id
               /\ room_bookings'[Len(room_bookings')].user_email
                    = book[c].user_email
               /\ room_bookings'[Len(room_bookings')].status = "active"
               /\ room_inventory' = room_inventory
         /\ (book[c].pc # "insert" /\ book'[c].pc = "insert")
            => book[c].pc = "update"]_vars

HoldSucceeded ==
    \E c \in Clients :
        /\ book[c].status = 200
        /\ book[c].booking \in 1..Len(room_bookings)
        /\ room_bookings[book[c].booking].status = "active"
        /\ room_bookings[book[c].booking].room_inventory_id = book[c].id
        /\ room_inventory[book[c].id].rooms_available = TOTAL_ROOMS - 1

\* C5: every hold with status active whose expires_at has passed is
\* eventually transitioned to expired (and its unit's rooms_available given
\* back for it).
ExpiredHoldsReclaimed ==
    \A i \in 1..MaxRequests :
        (/\ i \in DOMAIN room_bookings
         /\ room_bookings[i].status = "active"
         /\ room_bookings[i].expires_at < now)
        ~> (/\ i \in DOMAIN room_bookings
            /\ room_bookings[i].status = "expired")

\* C9: the bookings read reports as expired every returned hold whose
\* expires_at lies before the time of the read.
ListingReportsExpired ==
    \A k \in 1..Len(listing.rows) :
        listing.rows[k].seconds_remaining < 0
        => listing.rows[k].status # "active"

\* C16: a hold is never removed and its status only ever moves from active
\* to expired or from active to cancelled; a hold that is expired or
\* cancelled is never active again.
HoldStatusMonotonic ==
    [][\A i \in DOMAIN room_bookings :
         /\ i \in DOMAIN room_bookings'
         /\ LET s == room_bookings[i].status
                t == room_bookings'[i].status
            IN /\ t # s => (s = "active" /\ t \in {"expired", "cancelled"})
               /\ s \in {"expired", "cancelled"} => t # "active"]_vars

\* a hold has outlived its expires_at, another hold was inserted after it
\* and the customer has read their bookings
HoldKeptPastExpiry ==
    /\ Len(room_bookings) >= 2
    /\ room_bookings[1].expires_at < now
    /\ room_bookings[1].status = "active"
    /\ room_bookings[2].booked_at > room_bookings[1].expires_at
    /\ Len(listing.rows) >= 2

NotFoundError == "Room not found or unavailable"

\* C17: a booking call with a customer email whose read completes and
\* finds no unit with that id, or a unit whose status is not active, is
\* answered 404 and changes neither the inventory nor the set of holds.
NotFoundNoMutation ==
    [][\A c \in Clients :
         ( /\ requests' = requests + 1
           /\ book'[c].request = requests'
           /\ book'[c].user_email # NoEmail
           /\ \/ book'[c].id \notin DOMAIN room_inventory
              \/ room_inventory[book'[c].id].status # "active"
           /\ book'[c].status # 500 )
         => /\ book'[c].pc = "done"
            /\ book'[c].status = 404
            /\ book'[c].error = NotFoundError
            /\ room_inventory' = room_inventory
            /\ room_bookings' = room_bookings]_vars

\* one call named room 2 while it was off sale, another named an id with
\* no row, and both were answered 404
NotFoundAnswered ==
    /\ room_inventory[2].status = "inactive"
    /\ room_inventory[2].rooms_available = TOTAL_ROOMS
    /\ room_bookings = <<>>
    /\ \E c, d \in Clients :
          /\ book[c].pc = "done" /\ book[c].id = 2 /\ book[c].status = 404
          /\ book[d].pc = "done" /\ book[d].id = 3 /\ book[d].status = 404
          /\ book[c].error = NotFoundError /\ book[d].error = NotFoundError

\* C18: every booking exchange that ended in an error carries the status of
\* its error class: a missing email 400, no unit or an inactive one 404, no
\* rooms left 409, a failed query 500; an override outside the day's
\* bounds carries 400.
StatusPerErrorClass ==
    /\ \A c \in Clients :
          book[c].pc = "done"
          => /\ book[c].error = "Email is required" => book[c].status = 400
             /\ book[c].error = NotFoundError => book[c].status = 404
             /\ book[c].error = NoRoomsError => book[c].status = 409
             /\ book[c].error = "Server error" => book[c].status = 500
    /\ (override.status # 0 /\ overrideRejected(override.price, override.dayNum))
       => override.status = 400

\* C22: a booking call is atomic under failure: whenever no booking call
\* is in flight, the capacity the calls have taken from a unit equals the
\* number of holds stored for that unit.
HoldsMatchCapacity ==
    (\A c \in Clients : book[c].pc \in {"idle", "done"})
    => \A r \in Rooms :
          TOTAL_ROOMS - room_inventory[r].rooms_available
            = Cardinality({i \in DOMAIN room_bookings :
                             room_bookings[i].room_inventory_id = r})

\* C24: a unit's rooms_available is never raised and never set to a value
\* unrelated to its holds: the code has no reclamation of expired holds, so
\* the only change of rooms_available is the decrement by 1 of a booking
\* call on that unit.
AvailabilityOnlyTakenByHolds ==
    [][\A r \in Rooms :
         room_inventory'[r].rooms_available # room_inventory[r].rooms_available
         => /\ room_inventory'[r].rooms_available
                 = room_inventory[r].rooms_available - 1
            /\ \E c \in Clients :
                  /\ book[c].pc = "update"
                  /\ book[c].id = r
                  /\ book'[c].pc = "insert"]_vars

\* C25: every stored hold expires exactly 30 minutes after its recorded
\* creation time: expires_at = booked_at + 30 minutes.
ExpiryIsCreationPlusHold ==
    \A i \in DOMAIN room_bookings :
        room_bookings[i].expires_at = room_bookings[i].booked_at + HOLD_MINUTES

---------------------------------------------------------------------------
(* Properties of the prices *)

\* the day buckets and bounds as the specification states them
SpecMinPrice(day) ==
    IF day \in {"Sunday", "Monday", "Tuesday"} THEN 75 ELSE 80
SpecMaxPrice(day) == 99

\* C6: for every day, occupancy, hour, previous price, traffic count and
\* random draw, the price calculateDynamicPrice returns is a whole number
\* within [75, 99] on Sunday-Tuesday and [80, 99] on Wednesday-Saturday.
PriceWithinDayRange ==
    calc # NoCalc
    => /\ calc.new_price \in Nat
       /\ SpecMinPrice(args.day_of_week) <= calc.new_price
       /\ calc.new_price <= SpecMaxPrice(args.day_of_week)

\* the floor of a Sunday-Tuesday day was applied: 86 * 0.80 * 0.98 * 0.95
PriceFloored ==
    /\ calc # NoCalc
    /\ args.day_of_week = "Monday"
    /\ args.current_occupancy = 10 * OccScale
    /\ args.time_of_day = 9
    /\ args.user_traffic = 0
    /\ calc.new_price = 75

\* C7: in every reachable state every unit's current_price lies within the
\* bounds of the day that is active in that state.
CurrentPriceWithinDayBounds ==
    \A r \in Rooms :
        /\ SpecMinPrice(currentDayOf(now)) <= room_inventory[r].current_price
        /\ room_inventory[r].current_price <= SpecMaxPrice(currentDayOf(now))

\* C8: the locked_price of a hold equals the unit's current_price at the
\* instant the hold is inserted.
LockedPriceIsCurrent ==
    [][Len(room_bookings') = Len(room_bookings) + 1
       => room_bookings'[Len(room_bookings')].locked_price
            = room_inventory[room_bookings'[Len(room_bookings')]
                               .room_inventory_id].current_price]_vars

\* C10: an override exchange is answered 400 exactly when the price lies
\* outside the day's bounds, which are the bounds calculateDynamicPrice
\* uses, and then nothing is written; when the UPDATE completes, the
\* exchange is answered OK with the price written to the named unit exactly
\* when the price lies within the bounds.
OverrideValidated ==
    [][overrides' = overrides + 1
       => LET o == override'
              day == currentDayOf(now)
              within == /\ SpecMinPrice(day) <= o.price
                        /\ o.price <= SpecMaxPrice(day)
              written == o.roomId \in Rooms
                         => room_inventory'[o.roomId].current_price = o.price
          IN /\ within <=> /\ min_price_of(dayMap[day]) <= o.price
                           /\ o.price <= max_price_of(dayMap[day])
             /\ o.status \in {200, 400, 500}
             /\ o.status = 400 <=> ~within
             /\ o.status # 500 => ((o.status = 200 /\ written) <=> within)
             /\ o.status # 200 => room_inventory' = room_inventory
             /\ o.status = 200
                => room_inventory' =
                     IF o.roomId \in Rooms
                     THEN [room_inventory EXCEPT
                             ![o.roomId].current_price = o.price]
                     ELSE room_inventory]_vars

\* overridePrice(unitId, 60, "test") on a Wednesday was rejected
OverrideSixtyRejected ==
    /\ override.status = 400
    /\ override.price = 60
    /\ override.roomId \in Rooms
    /\ currentDayOf(now) = "Wednesday"
    /\ override.dayNum = 3

\* C11: an override exchange, whatever its answer, leaves every unit's
\* rooms_available and every hold as they were; one that is answered OK
\* changes nothing but the current_price of the unit it names, and one that
\* is not answered OK changes nothing at all.
OverrideFrame ==
    [][overrides' = overrides + 1
       => LET o == override' IN
          /\ room_bookings' = room_bookings
          /\ DOMAIN room_inventory' = DOMAIN room_inventory
          /\ \A r \in Rooms :
                /\ room_inventory'[r].rooms_available
                     = room_inventory[r].rooms_available
                /\ room_inventory'[r].status = room_inventory[r].status
                /\ room_inventory'[r].last_price_update
                     = room_inventory[r].last_price_update
                /\ (o.status # 200 \/ r # o.roomId)
                   => room_inventory'[r] = room_inventory[r]]_vars

\* an override of room 1 was answered OK while room 1 had a hold on it
OverrodeHeldRoom ==
    /\ override.status = 200
    /\ override.roomId = 1
    /\ room_inventory[1].current_price = override.price
    /\ room_inventory[1].current_price # InitInventory[1].current_price
    /\ room_inventory[2].current_price = InitInventory[2].current_price
    /\ Len(room_bookings) >= 1
    /\ room_inventory[1].rooms_available < TOTAL_ROOMS

\* a call for a Saturday at 95 percent occupancy and 15 hours, with a
\* previous price within the Wednesday-Saturday bounds
PeakSaturdayCall ==
    /\ calc # NoCalc
    /\ args.day_of_week = "Saturday"
    /\ args.current_occupancy = 95 * OccScale
    /\ args.time_of_day = 15
    /\ args.previous_price \in 80..99

\* C20, as stated: for base price 86, Saturday, occupancy 95 percent and
\* hour 15 the price is the ceiling 99 for every traffic count, every
\* previous price within [80, 99] and every random draw.
PeakSaturdayAtCeiling ==
    PeakSaturdayCall => calc.new_price = 99

\* C20, amended: for base price 86, Saturday, occupancy 95 percent and
\* hour 15 the price is the ceiling 99 for every traffic count of at least
\* 3, every previous price within [80, 99] and every random draw.
PeakSaturdayAtCeilingWithTraffic ==
    (PeakSaturdayCall /\ args.user_traffic >= 3) => calc.new_price = 99

\* the least product of the amended case, 99.23: traffic 3 (0.98), the
\* least fluctuation (0.995) and the downward momentum (0.98)
PeakSaturdayLeastProduct ==
    /\ PeakSaturdayCall
    /\ args.user_traffic = 3
    /\ args.previous_price = 95
    /\ args.rnd = 0
    /\ calc.new_price = 99
    /\ calc.price_change = 4

\* C21: for base price 86, Monday, occupancy 10 percent and hour 9 the
\* price is the floor 75 for every traffic count, every previous price
\* within [75, 99] and every random draw.
QuietMondayAtFloor ==
    ( /\ calc # NoCalc
      /\ args.day_of_week = "Monday"
      /\ args.current_occupancy = 10 * OccScale
      /\ args.time_of_day = 9
      /\ args.previous_price \in 75..99 )
    => calc.new_price = 75

\* the greatest product of the case, 75.01: traffic 25 (1.06), the
\* greatest fluctuation drawn (1.029) and the upward momentum (1.02)
QuietMondayGreatestProduct ==
    /\ calc # NoCalc
    /\ args.day_of_week = "Monday"
    /\ args.current_occupancy = 10 * OccScale
    /\ args.time_of_day = 9
    /\ args.user_traffic = 25
    /\ args.previous_price = 77
    /\ args.rnd = RandRes - 1
    /\ calc.new_price = 75
    /\ calc.price_change = -2

\* C27: an override exchange is answered OK only when the unit it names
\* exists and its current_price has been set to the requested price.
OverrideOkOnlyForUnit ==
    [][(overrides' = overrides + 1 /\ override'.status = 200)
       => /\ override'.roomId \in DOMAIN room_inventory'
          /\ room_inventory'[override'.roomId].current_price
               = override'.price]_vars

\* const { roomId, price, duration = 24, ... } = req.body, in hours
DEFAULT_DURATION == 24

\* C28: the price of an accepted override stays the unit's current_price
\* until the override's duration, 24 hours by default, has elapsed; the
\* override was made at StartTime or later, so less than 24 hours after
\* StartTime the latest accepted override is still within its window.
OverrideOutlastsSweep ==
    ( /\ override.status = 200
      /\ override.roomId \in Rooms
      /\ now < StartTime + DEFAULT_DURATION * MinutesPerHour )
    => room_inventory[override.roomId].current_price = override.price

---------------------------------------------------------------------------
(* Properties of the pricing sweep *)

\* C12: a failure while the sweep processes one unit does not abort the
\* sweep: as long as units read by the sweep remain after the current one,
\* no step of the sweep abandons them, so every other unit still gets its
\* price and timestamp written.
SweepIsolatesFailures ==
    [][(sweep.pc = "loop" /\ sweep.i < Len(sweep.rooms))
       => /\ sweep'.pc = "loop"
          /\ sweep'.rooms = sweep.rooms
          /\ sweep'.i \in {sweep.i, sweep.i + 1}]_vars

---------------------------------------------------------------------------
(* Properties of the owner notification *)

\* C13: the notification of a successful hold is fire-and-forget: while
\* the mail of a hold is still being sent, the booking response has
\* already been produced.
ResponseDoesNotAwaitMail ==
    \A c \in Clients :
        book[c].notification = "pending" => book[c].status = 200

\* C14: once the decrement and the insert of a call have succeeded, the
\* call is answered 200 with the hold it inserted, and nothing stored is
\* changed, whether the mail was sent or its sending failed.
MailFailureNotPropagated ==
    [][\A c \in Clients :
         (book[c].pc = "notify" /\ book'[c] # book[c])
         => /\ book'[c].pc = "done"
            /\ book'[c].status = 200
            /\ book'[c].error = ""
            /\ book'[c].notification \in {"sent", "failed"}
            /\ book'[c].booking = book[c].booking
            /\ book'[c].booking \in DOMAIN room_bookings'
            /\ room_bookings'[book'[c].booking].room_inventory_id = book[c].id
            /\ room_bookings'[book'[c].booking].status = "active"
            /\ room_bookings' = room_bookings
            /\ room_inventory' = room_inventory]_vars

\* a call was answered 200 with its hold although the mail failed
BookedDespiteMailFailure ==
    \E c \in Clients :
        /\ book[c].pc = "done"
        /\ book[c].notification = "failed"
        /\ book[c].status = 200
        /\ book[c].booking \in DOMAIN room_bookings
        /\ room_bookings[book[c].booking].user_email = book[c].user_email
        /\ room_inventory[book[c].id].rooms_available < TOTAL_ROOMS

---------------------------------------------------------------------------
(* Properties of calculateDynamicPrice *)

\* C15: the random source is an input the caller supplies, so the price is
\* a function of what the caller passes: two calls with the same base
\* price, day, occupancy, hour, previous price and traffic count return
\* the same price.
PriceDeterminedByArguments ==
    [][( /\ calc # NoCalc
         /\ calc' # NoCalc
         /\ args'.day_of_week = args.day_of_week
         /\ args'.current_occupancy = args.current_occupancy
         /\ args'.time_of_day = args.time_of_day
         /\ args'.previous_price = args.previous_price
         /\ args'.user_traffic = args.user_traffic )
       => calc'.new_price = calc.new_price]_vars

\* the prices calculateDynamicPrice can return for a row read by a sweep:
\* the price does not decrease with the traffic draw or the random draw, so
\* they are the prices from the least draws to the greatest
SweepPrices(room, day, hour) ==
    LET price(draw, rnd) ==
          calculateDynamicPrice(BASE_PRICE, day,
                                occupancyPercent(room.rooms_available), hour,
                                room.current_price, userTrafficOf(draw),
                                rnd).new_price
    IN price(0, 0)..price(14, RandRes - 1)

SweepPricesCurrentRow ==
    sweep.pc = "loop"
    => \A k \in sweep.i..Len(sweep.rooms) :
          LET room == sweep.rooms[k] IN
          /\ room.rooms_available = room_inventory[room.id].rooms_available
          /\ room.current_price = room_inventory[room.id].current_price

\* C26: the last_price_update of every unit is non-decreasing over every
\* interleaving of sweeps, forced updates, overrides and bookings.
LastUpdateNonDecreasing ==
    [][\A r \in Rooms :
         room_inventory'[r].last_price_update
           >= room_inventory[r].last_price_update]_vars

\* the sweep and the forced update have both written room 1, the later of
\* them after the clock had moved twice, with an override and a hold on
\* room 1; room 2, off sale, keeps its timestamp
StampedByBothWriters ==
    /\ sweeps >= 1
    /\ sweep.pc = "idle"
    /\ force.pc = "idle"
    /\ force.status = 200
    /\ ticks = 2
    /\ room_inventory[1].last_price_update = now
    /\ room_inventory[2].last_price_update = StartTime
    /\ override.status = 200
    /\ Len(room_bookings) >= 1

\* C29: the occupancy the sweep passes to calculateDynamicPrice is within
\* 0 to 100 percent for every unit it prices.
SweepOccupancyInRange ==
    sweep.pc = "loop"
    => \A k \in sweep.i..Len(sweep.rooms) :
          /\ 0 <= occupancyPercent(sweep.rooms[k].rooms_available)
          /\ occupancyPercent(sweep.rooms[k].rooms_available)
               <= 100 * OccScale

---------------------------------------------------------------------------
(* Properties across units *)

\* the units whose row a step changes
Written == {u \in Rooms : room_inventory'[u] # room_inventory[u]}

\* C30: operations on different units are independent: the decrement of a
\* booking call, an override and a price write of the sweep change the row
\* of the unit they are for and of no other unit, and the hold a booking
\* call inserts references the unit the call named and changes no row.
UnitsIndependent ==
    [][/\ \A c \in Clients :
            (book[c].pc = "update" /\ book'[c].pc = "insert")
            => Written \subseteq {book[c].id}
       /\ overrides' = overrides + 1 => Written \subseteq {override'.roomId}
       /\ (sweep.pc = "loop" /\ sweep' # sweep)
          => Written \subseteq {sweep.rooms[sweep.i].id}
       /\ \A c \in Clients :
            (book[c].pc = "insert" /\ book'[c].pc = "done")
            => /\ Written = {}
               /\ Len(room_bookings') = Len(room_bookings) + 1
               /\ SubSeq(room_bookings', 1, Len(room_bookings))
                    = room_bookings
               /\ room_bookings'[Len(room_bookings')].room_inventory_id
                    = book[c].id]_vars

\* room 1 carries a hold, its decrement and the sweep's price, room 2 the
\* override's price and nothing else
UnitsWrittenApart ==
    /\ Len(room_bookings) = 1
    /\ room_bookings[1].room_inventory_id = 1
    /\ room_inventory[1].rooms_available = TOTAL_ROOMS - 1
    /\ room_inventory[2].rooms_available = TOTAL_ROOMS
    /\ override.status = 200
    /\ override.roomId = 2
    /\ room_inventory[2].current_price = 99
    /\ sweep.pc = "loop"
    /\ sweep.i = 2
    /\ room_inventory[1].current_price = 75

---------------------------------------------------------------------------
(* The holds as history *)

\* C31: a hold is never physically removed: once it is persisted it stays
\* in the set of holds with its unit, customer, locked_price and
\* expires_at unchanged in every later state.
HoldsNeverRemoved ==
    [][\A i \in DOMAIN room_bookings :
         /\ i \in DOMAIN room_bookings'
         /\ room_bookings'[i].room_inventory_id
              = room_bookings[i].room_inventory_id
         /\ room_bookings'[i].user_email = room_bookings[i].user_email
         /\ room_bookings'[i].locked_price = room_bookings[i].locked_price
         /\ room_bookings'[i].expires_at = room_bookings[i].expires_at]_vars

\* a hold has lapsed, a later hold stands beside it, the customer has read
\* their bookings after the lapse, and a sweep has repriced the room
HoldLapsedAndStillStored ==
    /\ Len(room_bookings) >= 2
    /\ room_bookings[1].expires_at < now
    /\ room_bookings[2].booked_at > room_bookings[1].expires_at
    /\ listing.status = 200
    /\ Len(listing.rows) >= 2
    /\ sweeps >= 1
    /\ sweep.pc = "idle"

---------------------------------------------------------------------------
(* The counts reported to customers *)

\* C32: the available count that the rooms listing reports for a unit is
\* that unit's rooms_available in the ledger at the time of the read, and
\* the rooms_left that a successful booking reports (the count it read,
\* less one) is the unit's rooms_available right after that booking's
\* decrement.  No INSERT fails in SpecRooms, so every booking that
\* decrements succeeds.
ReportedCountsAreLedgerCounts ==
    [][ /\ (roomsReply' # roomsReply /\ roomsReply'.status = 200) =>
             \A i \in DOMAIN roomsReply'.rows :
                roomsReply'.rows[i].rooms_available
                  = room_inventory[roomsReply'.rows[i].id].rooms_available
        /\ \A c \in Clients :
             (book[c].pc = "update" /\ book'[c].pc = "insert") =>
                book[c].rooms_available - 1
                  = room_inventory'[book[c].id].rooms_available ]_vars

---------------------------------------------------------------------------
(* The factors of the price *)

\* Math.round(base_price * multiplier), multiplier in hundredths
RoundedProduct(base_price, multiplier) ==
    (base_price * multiplier + 50) \div 100

\* a call in which every factor but the traffic multiplier is 1.00: the
\* fluctuation draw gives exactly 1.000 and the previous price is the base
TrafficAloneCall ==
    /\ calc # NoCalc
    /\ args.rnd = 30
    /\ args.previous_price = BASE_PRICE

\* C33: the traffic multiplier is a non-decreasing step function of the
\* viewer count: it is 1.00 on the band 8..14, above 1.00 for every count
\* above the band and below 1.00 for every count below it; a call in
\* which the other factors are neutral returns the base price times it.
TrafficMultiplierMonotoneStep ==
    calc # NoCalc =>
      LET a == args.user_traffic
          m == traffic_multiplier_of(a)
      IN /\ \A b \in FactorTraffic :
              a <= b => m <= traffic_multiplier_of(b)
         /\ a \in 8..14 => m = 100
         /\ a > 14 => m > 100
         /\ a < 8 => m < 100
         /\ TrafficAloneCall =>
              calc.new_price = RoundedProduct(BASE_PRICE, m)

\* the lowest count of the neutral band, priced at the base price
TrafficBandLowerEdge ==
    /\ TrafficAloneCall
    /\ args.user_traffic = 8
    /\ calc.new_price = BASE_PRICE

\* a call in which every factor but the momentum multiplier is 1.00: the
\* fluctuation draw gives exactly 1.000 and the traffic is in the band
MomentumAloneCall ==
    /\ calc # NoCalc
    /\ args.rnd = 30
    /\ args.user_traffic = 8

\* C34: the momentum multiplier is below 1 exactly when the previous price
\* is above 1.10 times the base price, above 1 exactly when it is below
\* 0.90 times the base price, and exactly 1 otherwise; a call in which the
\* other factors are neutral returns the base price times it, which lies
\* on the base price's side of the previous price whenever it is not 1.
MomentumPushesTowardBase ==
    calc # NoCalc =>
      LET prev == args.previous_price
          m == momentum_multiplier_of(prev, BASE_PRICE)
      IN /\ m < 100 <=> prev * 100 > 110 * BASE_PRICE
         /\ m > 100 <=> prev * 100 < 90 * BASE_PRICE
         /\ (prev * 100 <= 110 * BASE_PRICE /\ prev * 100 >= 90 * BASE_PRICE)
              => m = 100
         /\ MomentumAloneCall =>
              /\ calc.new_price = RoundedProduct(BASE_PRICE, m)
              /\ m < 100 => calc.new_price < prev
              /\ m > 100 => calc.new_price > prev

\* the first whole price above 1.10 x 86 = 94.6 is corrected downward and
\* comes back as round(86 x 0.98) = 84
MomentumCorrectsDownward ==
    /\ MomentumAloneCall
    /\ args.previous_price = 95
    /\ calc.new_price = 84
    /\ calc.price_change = -11

\* C35: the fluctuation factor applied in a price computation is within
\* 3 percent of 1, that is in [0.97, 1.03], for every value Math.random()
\* can return, and every value of that range can occur (in thousandths;
\* Math.random() is below 1, so 1.03 itself is left out).
FluctuationCoversThreePercent ==
    calc # NoCalc =>
      /\ small_fluctuation_of(args.rnd) \in 970..1030
      /\ \A v \in 970..1029 :
            \E rnd \in FactorRandDraws : small_fluctuation_of(rnd) = v

---------------------------------------------------------------------------
(* The price history of the weighted-sum engine *)

\* C36: after any number of calculate_dynamic_price calls, price_history
\* holds at most 10 entries, and they are the most recent computations in
\* call order: the oldest entry is the one dropped when an 11th is
\* appended.
PriceHistoryKeepsLastTen ==
    LET n == Len(engine.returned)
        k == Min(n, 10)
    IN /\ Len(engine.price_history) = k
       /\ \A i \in 1..k :
            /\ engine.price_history[i].price
                 = engine.returned[n - k + i].new_price
            /\ engine.price_history[i].change
                 = engine.returned[n - k + i].price_change

\* eleven calls have returned, the first two with different prices, and
\* the history now starts with the second
EleventhCallDroppedOldest ==
    /\ Len(engine.returned) = 11
    /\ Len(engine.price_history) = 10
    /\ engine.returned[1].new_price # engine.returned[2].new_price
    /\ engine.price_history[1].price = engine.returned[2].new_price
    /\ engine.price_history[10].price = engine.returned[11].new_price
====
